---- MODULE Spec2Model ----
(***************************************************************************)
(* Model of the cluster control plane of src/api_server.py: the node       *)
(* registry (NodeManager), the pod registry and scheduler (PodScheduler),  *)
(* the liveness monitor (HealthMonitor) and the Flask handlers in front of *)
(* them.                                                                   *)
(*                                                                         *)
(* Spec     : operation sequences. Every handler and every monitor tick is *)
(*            one atomic action; heartbeats of any origin are NodeHeartbeat*)
(*            steps; the clock jumps by TimeJump.                          *)
(* SpecConc : the handlers run in parallel threads (Flask serves each      *)
(*            request in its own thread) and interleave at the points      *)
(*            where CPython may switch threads.                            *)
(* SpecTimed: the monitor loop on the clock, one iteration whenever its     *)
(*            sleep ends, between atomic handlers.                         *)
(* SpecSched: PodScheduler.schedule_pod called directly, with any          *)
(*            arguments, between atomic handlers.                          *)
(* SpecAdmit: POST /nodes with the JSON body as sent, with and without a   *)
(*            container runtime, between atomic handlers.                  *)
(* SpecLife : start_monitoring and stop_monitoring called while the server *)
(*            runs; SpecLifeFair adds that the monitor thread gets to run. *)
(* SpecSim  : nodes in simulation mode, each with its heartbeat thread.    *)
(* SpecMon  : the monitor thread statement by statement, the handlers      *)
(*            atomic between its steps.                                    *)
(***************************************************************************)
EXTENDS Integers, Sequences, FiniteSets, TLC

\* ------------------------------------------------------------------ bounds
MaxNodes == 2        \* nodes admitted in one run
MaxCores == 2        \* largest cpu_cores / cpu_requirement a request carries
MaxPodIds == 3       \* pod ids (uuid4 draws) handed out in one run
MaxTime == 20        \* the clock stops here
NumThreads == 2      \* SpecConc: request threads running in parallel

\* ------------------------------------------------------- program constants
heartbeat_timeout == 15     \* HealthMonitor.heartbeat_timeout
SleepSeconds == 5           \* time.sleep(5) of the monitor and of the heartbeat loops

\* the shortest silence after which a tick finds a node stale, in whole sleeps
TimeJump == heartbeat_timeout + SleepSeconds

Algorithms == {"first-fit", "best-fit", "worst-fit", "round-robin", "random-fit"}

None == 0            \* Python None where a pod id or node id is expected
NoError == ""

VARIABLES
    nodes,                  \* NodeManager.nodes: node_id -> node_info, in insertion order
    node_last_heartbeat,    \* NodeManager.node_last_heartbeat: node_id -> time
    pods,                   \* PodScheduler.pods: pod records in insertion order
    uuid,                   \* number of pod ids drawn so far (ids are 1..uuid)
    docker_client,          \* NodeManager.docker_client: "docker" or "none"
    sim_thread,             \* position of each node's _simulate_heartbeats thread
    now,                    \* time.time()
    response,               \* what the last step returned to its HTTP client
    log,                    \* what the recovery of the last step logged
    threads,                \* the threads serving calls: their positions and arguments
    monitor                 \* HealthMonitor: running flag, and when its sleep ends

vars == <<nodes, node_last_heartbeat, pods, uuid, docker_client, sim_thread,
          now, response, log, threads, monitor>>

NodeIds == 1..MaxNodes

\* ------------------------------------------------------------ small helpers
SetMin(S) == CHOOSE x \in S : \A y \in S : x <= y

RECURSIVE SumSeq(_)
SumSeq(s) == IF s = <<>> THEN 0 ELSE Head(s) + SumSeq(Tail(s))

Range(s) == {s[i] : i \in DOMAIN s}

PodIds(ps) == {ps[i].id : i \in DOMAIN ps}

PodById(ps, id) == ps[CHOOSE i \in DOMAIN ps : ps[i].id = id]

\* (status code, error message) of a Flask response; code 0: no HTTP request
Resp(code, err) == [code |-> code, error |-> err]
NoResponse == Resp(0, NoError)

\* ------------------------------------------------------------- NodeManager
new_node(cpu_cores) ==
    [cpu_cores |-> cpu_cores, available_cores |-> cpu_cores, status |-> "healthy",
     pods |-> <<>>, simulate_heartbeats |-> "unset"]

get_healthy_nodes(ns) == {n \in DOMAIN ns : ns[n].status = "healthy"}

\* a slip: the heartbeat of an unhealthy node registers it anew, all cores free
update_node_heartbeat_reregisters(ns, n) ==
    [ns EXCEPT ![n].status = "healthy",
               ![n].available_cores = IF ns[n].status = "unhealthy"
                                      THEN ns[n].cpu_cores ELSE @,
               ![n].pods = IF ns[n].status = "unhealthy" THEN <<>> ELSE @]

update_node_heartbeat(ns, n) == [ns EXCEPT ![n].status = "healthy"]

mark_node_unhealthy(ns, n) ==
    [ns EXCEPT ![n].status = "unhealthy", ![n].simulate_heartbeats = "off"]

add_pod_to_node_ok(ns, n, cpu_requirement) ==
    n \in DOMAIN ns /\ ns[n].available_cores >= cpu_requirement

\* a slip: the pod is charged to the node but never listed on it
add_pod_to_node_unlisted(ns, n, pod_id, cpu_requirement) ==
    IF add_pod_to_node_ok(ns, n, cpu_requirement)
    THEN [ns EXCEPT ![n].available_cores = @ - cpu_requirement]
    ELSE ns

\* a slip: += for -=
add_pod_to_node_credits(ns, n, pod_id, cpu_requirement) ==
    IF add_pod_to_node_ok(ns, n, cpu_requirement)
    THEN [ns EXCEPT ![n].pods = Append(@, pod_id),
                    ![n].available_cores = @ + cpu_requirement]
    ELSE ns

add_pod_to_node(ns, n, pod_id, cpu_requirement) ==
    IF add_pod_to_node_ok(ns, n, cpu_requirement)
    THEN [ns EXCEPT ![n].pods = Append(@, pod_id),
                    ![n].available_cores = @ - cpu_requirement]
    ELSE ns

\* ------------------------------------------------------------ PodScheduler
eligible_nodes(ns, cpu_requirement) ==
    {n \in get_healthy_nodes(ns) : ns[n].available_cores >= cpu_requirement}

\* min(...)/max(...)/sorted(...)[0] return the first extremal key in dict order;
\* key is a function on the node ids
FirstMinBy(E, key) == SetMin({n \in E : \A m \in E : key[n] <= key[m]})
FirstMaxBy(E, key) == SetMin({n \in E : \A m \in E : key[n] >= key[m]})

\* a slip: first-fit takes the last eligible node
select_node_last_fit(ns, E, algorithm) ==
    LET avail == [n \in DOMAIN ns |-> ns[n].available_cores]
        npods == [n \in DOMAIN ns |-> Len(ns[n].pods)]
    IN CASE algorithm = "first-fit"   -> {CHOOSE n \in E : \A m \in E : n >= m}
         [] algorithm = "best-fit"    -> {FirstMinBy(E, avail)}
         [] algorithm = "worst-fit"   -> {FirstMaxBy(E, avail)}
         [] algorithm = "round-robin" -> {FirstMinBy(E, npods)}
         [] algorithm = "random-fit"  -> E
         [] OTHER                     -> {}

\* a slip: best-fit forgets its key and takes the first eligible node
select_node_best_unkeyed(ns, E, algorithm) ==
    LET avail == [n \in DOMAIN ns |-> ns[n].available_cores]
        npods == [n \in DOMAIN ns |-> Len(ns[n].pods)]
    IN CASE algorithm = "first-fit"   -> {SetMin(E)}
         [] algorithm = "best-fit"    -> {SetMin(E)}
         [] algorithm = "worst-fit"   -> {FirstMaxBy(E, avail)}
         [] algorithm = "round-robin" -> {FirstMinBy(E, npods)}
         [] algorithm = "random-fit"  -> E
         [] OTHER                     -> {}

\* a slip: among the nodes with the most free cores, worst-fit takes the last
select_node_worst_last_tie(ns, E, algorithm) ==
    LET avail == [n \in DOMAIN ns |-> ns[n].available_cores]
        npods == [n \in DOMAIN ns |-> Len(ns[n].pods)]
        most == {n \in E : \A m \in E : avail[n] >= avail[m]}
    IN CASE algorithm = "first-fit"   -> {SetMin(E)}
         [] algorithm = "best-fit"    -> {FirstMinBy(E, avail)}
         [] algorithm = "worst-fit"   -> {CHOOSE n \in most : \A m \in most : n >= m}
         [] algorithm = "round-robin" -> {FirstMinBy(E, npods)}
         [] algorithm = "random-fit"  -> E
         [] OTHER                     -> {}

\* the candidates of one call: a single node, any eligible node for random-fit,
\* none for a token no branch matches (selected_node_id stays None)
select_node(ns, E, algorithm) ==
    LET avail == [n \in DOMAIN ns |-> ns[n].available_cores]
        npods == [n \in DOMAIN ns |-> Len(ns[n].pods)]
    IN CASE algorithm = "first-fit"   -> {SetMin(E)}
         [] algorithm = "best-fit"    -> {FirstMinBy(E, avail)}
         [] algorithm = "worst-fit"   -> {FirstMaxBy(E, avail)}
         [] algorithm = "round-robin" -> {FirstMinBy(E, npods)}
         [] algorithm = "random-fit"  -> E
         [] OTHER                     -> {}

\* a slip: the id is the registry's size plus one, not a fresh one
pod_id_by_count(st) == Len(st.pods) + 1

\* str(uuid.uuid4()): an id no pod has had
fresh_pod_id(st) == st.uuid + 1

Failed(st, err) == [st |-> st, pod_id |-> None, node_id |-> None, error |-> err]

\* a slip: the filter runs before the test for an empty healthy set, so both
\* failures give the same reason
select_outcome_one_reason(ns, cpu_requirement, algorithm) ==
    LET E == eligible_nodes(ns, cpu_requirement)
    IN IF E = {}
       THEN [error |-> "Insufficient resources", cand |-> {}]
       ELSE IF select_node(ns, E, algorithm) = {}
       THEN [error |-> "Failed to schedule pod", cand |-> {}]
       ELSE [error |-> NoError, cand |-> select_node(ns, E, algorithm)]

\* lines 218-260 of schedule_pod: the error it returns, or the candidates
select_outcome(ns, cpu_requirement, algorithm) ==
    LET E == eligible_nodes(ns, cpu_requirement)
    IN IF get_healthy_nodes(ns) = {}
       THEN [error |-> "No healthy nodes available", cand |-> {}]
       ELSE IF E = {}
       THEN [error |-> "Insufficient resources", cand |-> {}]
       ELSE IF select_node(ns, E, algorithm) = {}
       THEN [error |-> "Failed to schedule pod", cand |-> {}]
       ELSE [error |-> NoError, cand |-> select_node(ns, E, algorithm)]

pod_record(pod_id, cpu_requirement, node_id, algorithm) ==
    [id |-> pod_id, cpu_requirement |-> cpu_requirement, node_id |-> node_id,
     algorithm |-> algorithm]

\* a slip: the record is stored before the outcome of the selection is known
schedule_pod_records_first(st, cpu_requirement, algorithm) ==
    LET pod_id == fresh_pod_id(st)
        sel == select_outcome(st.nodes, cpu_requirement, algorithm)
        rec == [st EXCEPT !.pods = Append(@, pod_record(pod_id, cpu_requirement, None,
                                                        algorithm)),
                          !.uuid = pod_id]
    IN IF sel.error # NoError
       THEN {Failed(rec, sel.error)}
       ELSE { IF add_pod_to_node_ok(st.nodes, n, cpu_requirement)
              THEN [st |-> [st EXCEPT
                              !.nodes = add_pod_to_node(st.nodes, n, pod_id, cpu_requirement),
                              !.pods = Append(@, pod_record(pod_id, cpu_requirement, n,
                                                            algorithm)),
                              !.uuid = pod_id],
                    pod_id |-> pod_id, node_id |-> n, error |-> NoError]
              ELSE Failed(rec, "Failed to schedule pod") : n \in sel.cand }

\* schedule_pod on the registries st = [nodes, pods, uuid, log]: the set of its
\* possible outcomes [st, pod_id, node_id, error]
schedule_pod(st, cpu_requirement, algorithm) ==
    LET pod_id == fresh_pod_id(st)
        sel == select_outcome(st.nodes, cpu_requirement, algorithm)
    IN IF sel.error # NoError
       THEN {Failed(st, sel.error)}
       ELSE { IF add_pod_to_node_ok(st.nodes, n, cpu_requirement)
              THEN [st |-> [st EXCEPT
                              !.nodes = add_pod_to_node(st.nodes, n, pod_id, cpu_requirement),
                              !.pods = Append(@, pod_record(pod_id, cpu_requirement, n,
                                                            algorithm)),
                              !.uuid = pod_id],
                    pod_id |-> pod_id, node_id |-> n, error |-> NoError]
              ELSE Failed(st, "Failed to schedule pod") : n \in sel.cand }

\* the lines a recovery logs: "rescheduled" is the pair of lines 271 and 308
\* (the new pod's node, cores and algorithm, and the old pod it replaces),
\* "failed to reschedule" is line 312
Rescheduled(p, failed_node_id, o) ==
    [msg |-> "rescheduled", pod_id |-> p.id, failed_node_id |-> failed_node_id,
     new_pod_id |-> o.pod_id, node_id |-> o.node_id,
     cpu_requirement |-> PodById(o.st.pods, o.pod_id).cpu_requirement,
     algorithm |-> PodById(o.st.pods, o.pod_id).algorithm]

NotRescheduled(p, failed_node_id) ==
    [msg |-> "failed to reschedule", pod_id |-> p.id, failed_node_id |-> failed_node_id,
     new_pod_id |-> None, node_id |-> None, cpu_requirement |-> 0, algorithm |-> ""]

del_pod(ps, pod_id) == SelectSeq(ps, LAMBDA p : p.id # pod_id)

\* a slip: the pod's own algorithm is ignored and the default is used
reschedule_one_default_algorithm(st, p, failed_node_id) ==
    { IF o.pod_id # None
      THEN [o.st EXCEPT !.pods = del_pod(@, p.id),
                        !.log = Append(@, Rescheduled(p, failed_node_id, o))]
      ELSE [o.st EXCEPT !.log = Append(@, NotRescheduled(p, failed_node_id))]
      : o \in schedule_pod(st, p.cpu_requirement, "first-fit") }

\* a slip: a pod that cannot be placed is dropped from the registry
reschedule_one_drops_unplaced(st, p, failed_node_id) ==
    { IF o.pod_id # None
      THEN [o.st EXCEPT !.pods = del_pod(@, p.id),
                        !.log = Append(@, Rescheduled(p, failed_node_id, o))]
      ELSE [o.st EXCEPT !.pods = del_pod(@, p.id),
                        !.log = Append(@, NotRescheduled(p, failed_node_id))]
      : o \in schedule_pod(st, p.cpu_requirement, p.algorithm) }

\* one iteration of the for loop of reschedule_pods_from_node, for the old pod p
reschedule_one(st, p, failed_node_id) ==
    { IF o.pod_id # None
      THEN [o.st EXCEPT !.pods = del_pod(@, p.id),
                        !.log = Append(@, Rescheduled(p, failed_node_id, o))]
      ELSE [o.st EXCEPT !.log = Append(@, NotRescheduled(p, failed_node_id))]
      : o \in schedule_pod(st, p.cpu_requirement, p.algorithm) }

RECURSIVE reschedule_each(_, _, _)
reschedule_each(S, todo, failed_node_id) ==
    IF todo = <<>> THEN S
    ELSE reschedule_each(UNION {reschedule_one(st, Head(todo), failed_node_id) : st \in S},
                         Tail(todo), failed_node_id)

\* a slip: the filter on the failed node is missing
pods_to_reschedule_all(ps, failed_node_id) == ps

\* pods_to_reschedule: the records of the pods on the failed node, in dict order
pods_to_reschedule(ps, failed_node_id) ==
    SelectSeq(ps, LAMBDA p : p.node_id = failed_node_id)

\* reschedule_pods_from_node: the set of registries it may leave
reschedule_pods_from_node(st, failed_node_id) ==
    IF failed_node_id \notin DOMAIN st.nodes THEN {st}
    ELSE reschedule_each({st}, pods_to_reschedule(st.pods, failed_node_id), failed_node_id)

\* ----------------------------------------------------------- HealthMonitor
\* a slip: one more sleep is granted before a silent node counts as stale
stale_late(hb, n, current_time) == current_time - hb[n] > heartbeat_timeout + SleepSeconds

stale(hb, n, current_time) == current_time - hb[n] > heartbeat_timeout

\* a slip: a stale node that is already unhealthy is passed over
RECURSIVE monitor_each_healthy_only(_, _, _, _)
monitor_each_healthy_only(S, hb, k, current_time) ==
    IF k > Len(hb) THEN S
    ELSE IF stale(hb, k, current_time)
    THEN monitor_each_healthy_only(
            UNION {IF st.nodes[k].status = "healthy"
                   THEN reschedule_pods_from_node(
                            [st EXCEPT !.nodes = mark_node_unhealthy(@, k)], k)
                   ELSE {st} : st \in S},
            hb, k + 1, current_time)
    ELSE monitor_each_healthy_only(S, hb, k + 1, current_time)

\* the for loop of one tick of _monitor_nodes over the snapshot hb of
\* node_last_heartbeat, from its k-th entry on
RECURSIVE monitor_each(_, _, _, _)
monitor_each(S, hb, k, current_time) ==
    IF k > Len(hb) THEN S
    ELSE IF stale(hb, k, current_time)
    THEN monitor_each(
            UNION {reschedule_pods_from_node(
                       [st EXCEPT !.nodes = mark_node_unhealthy(@, k)], k) : st \in S},
            hb, k + 1, current_time)
    ELSE monitor_each(S, hb, k + 1, current_time)

\* start_monitoring at module load: the loop is running and its first tick is due
StartedMonitor == [running |-> TRUE, wake |-> 0]

\* ------------------------------------------------------------------- state
Registries == [nodes |-> nodes, pods |-> pods, uuid |-> uuid, log |-> <<>>]

Commit(st) ==
    /\ st.uuid <= MaxPodIds
    /\ nodes' = st.nodes
    /\ pods' = st.pods
    /\ uuid' = st.uuid
    /\ log' = st.log

Init ==
    /\ nodes = <<>>
    /\ node_last_heartbeat = <<>>
    /\ pods = <<>>
    /\ uuid = 0
    /\ docker_client = "docker"
    /\ sim_thread = <<>>
    /\ now = 0
    /\ response = NoResponse
    /\ log = <<>>
    /\ threads = <<>>
    /\ monitor = StartedMonitor

\* ------------------------------------------------- handlers, run atomically
\* POST /nodes; run_ok tells whether containers.run succeeds
AddNode(cpu_cores, run_ok) ==
    /\ IF cpu_cores <= 0
       THEN /\ response' = Resp(400, "CPU cores must be a positive integer")
            /\ UNCHANGED <<nodes, node_last_heartbeat, docker_client, sim_thread>>
       ELSE /\ Len(nodes) < MaxNodes
            /\ nodes' = Append(nodes, new_node(cpu_cores))
            /\ node_last_heartbeat' = Append(node_last_heartbeat, now)
            /\ IF docker_client = "docker" /\ run_ok
               THEN /\ sim_thread' = Append(sim_thread, "none")
                    /\ UNCHANGED docker_client
               ELSE /\ sim_thread' = Append(sim_thread, "start")
                    /\ docker_client' = "none"
            /\ response' = Resp(201, NoError)
    /\ log' = <<>>
    /\ UNCHANGED <<monitor, pods, uuid, now, threads>>

\* POST /nodes/<node_id>/heartbeat
NodeHeartbeat(n) ==
    /\ IF n \in DOMAIN nodes
       THEN /\ node_last_heartbeat' = [node_last_heartbeat EXCEPT ![n] = now]
            /\ nodes' = update_node_heartbeat(nodes, n)
            /\ response' = Resp(200, NoError)
       ELSE /\ response' = Resp(404, "Node not found")
            /\ UNCHANGED <<nodes, node_last_heartbeat>>
    /\ log' = <<>>
    /\ UNCHANGED <<monitor, pods, uuid, docker_client, sim_thread, now, threads>>

\* POST /pods
CreatePod(cpu_requirement, algorithm) ==
    /\ IF cpu_requirement <= 0
       THEN /\ response' = Resp(400, "CPU requirement must be a positive integer")
            /\ log' = <<>>
            /\ UNCHANGED <<nodes, pods, uuid>>
       ELSE IF algorithm \notin Algorithms
       THEN /\ response' = Resp(400, "Invalid scheduling algorithm")
            /\ log' = <<>>
            /\ UNCHANGED <<nodes, pods, uuid>>
       ELSE \E o \in schedule_pod(Registries, cpu_requirement, algorithm) :
            /\ Commit(o.st)
            /\ response' = IF o.pod_id # None THEN Resp(201, NoError)
                                              ELSE Resp(500, o.error)
    /\ UNCHANGED <<monitor, node_last_heartbeat, docker_client, sim_thread, now, threads>>

\* a slip: the handler does not look at what NodeManager.terminate_node returned
TerminateNode_ignores_result(n) ==
    /\ LET outs == reschedule_pods_from_node(
                       IF n \in DOMAIN nodes
                       THEN [Registries EXCEPT !.nodes = mark_node_unhealthy(@, n)]
                       ELSE Registries, n)
       IN /\ \A st \in outs : st.uuid <= MaxPodIds
          /\ \E st \in outs : Commit(st)
    /\ response' = Resp(200, NoError)
    /\ UNCHANGED <<monitor, node_last_heartbeat, docker_client, sim_thread, now, threads>>

\* POST /nodes/<node_id>/terminate
TerminateNode(n) ==
    /\ IF n \in DOMAIN nodes
       THEN LET outs == reschedule_pods_from_node(
                            [Registries EXCEPT !.nodes = mark_node_unhealthy(@, n)], n)
            IN /\ \A st \in outs : st.uuid <= MaxPodIds
               /\ \E st \in outs : Commit(st)
               /\ response' = Resp(200, NoError)
       ELSE /\ response' = Resp(404, "Node not found")
            /\ log' = <<>>
            /\ UNCHANGED <<nodes, pods, uuid>>
    /\ UNCHANGED <<monitor, node_last_heartbeat, docker_client, sim_thread, now, threads>>

\* one iteration of the while loop of _monitor_nodes
MonitorTick ==
    /\ LET outs == monitor_each({Registries}, node_last_heartbeat, 1, now)
       IN /\ \A st \in outs : st.uuid <= MaxPodIds
          /\ \E st \in outs : Commit(st)
    /\ response' = NoResponse
    /\ UNCHANGED <<monitor, node_last_heartbeat, docker_client, sim_thread, now, threads>>

\* the clock moves on by d seconds
AdvanceTime(d) ==
    /\ now < MaxTime
    /\ now' = now + d
    /\ response' = NoResponse
    /\ log' = <<>>
    /\ UNCHANGED <<monitor, nodes, node_last_heartbeat, pods, uuid, docker_client, sim_thread,
                   threads>>

Next ==
    \/ \E c \in 0..MaxCores : AddNode(c, TRUE)
    \/ \E n \in NodeIds : NodeHeartbeat(n)
    \/ \E c \in 0..MaxCores, a \in Algorithms \cup {"bogus"} : CreatePod(c, a)
    \/ \E n \in NodeIds : TerminateNode(n)
    \/ MonitorTick
    \/ AdvanceTime(TimeJump)

Spec == Init /\ [][Next]_vars

\* ------------------------------------------- handlers, run in parallel threads
\* A request thread is idle or inside create_pod or terminate_node. Its steps are
\* the accesses to the shared dictionaries between which another thread may run:
\*   select    lines 218-260  snapshot of the healthy nodes, filter, choice
\*   check     line  178      the condition of add_pod_to_node
\*   append    line  179      pods.append(pod_id)
\*   decrement line  180      available_cores -= cpu_requirement
\*   record    lines 265-269  self.pods[pod_id] = {...}
\*   collect   lines 286-295  pods_to_reschedule
\*   del_old   line  310      del self.pods[pod_id]
\* The pod id a call drew at line 217 is named when it first shows, at append.
ThreadIds == 1..NumThreads

\* the algorithm tokens the parallel requests carry: the races lie between the
\* steps of add_pod_to_node and of the recovery loop, whichever policy chose the node
ConcAlgorithms == {"first-fit"}

IdleThread ==
    [pc |-> "idle", op |-> "", cpu |-> 0, alg |-> "", sel |-> None, pod_id |-> None,
     failed |-> None, todo |-> <<>>]

InitConc ==
    /\ nodes = <<>>
    /\ node_last_heartbeat = <<>>
    /\ pods = <<>>
    /\ uuid = 0
    /\ docker_client = "docker"
    /\ sim_thread = <<>>
    /\ now = 0
    /\ response = NoResponse
    /\ log = <<>>
    /\ threads = [t \in ThreadIds |-> IdleThread]
    /\ monitor = StartedMonitor

\* the recovery loop moves on to the next collected pod, or the handler returns
next_pod(thr) ==
    IF Len(thr.todo) <= 1
    THEN [thr |-> IdleThread, resp |-> Resp(200, NoError)]
    ELSE [thr |-> [thr EXCEPT !.pc = "select", !.todo = Tail(@),
                              !.cpu = thr.todo[2].cpu_requirement,
                              !.alg = thr.todo[2].algorithm,
                              !.sel = None, !.pod_id = None],
          resp |-> NoResponse]

\* schedule_pod returned (None, err) to its caller
schedule_failed(thr, err) ==
    IF thr.op = "create_pod"
    THEN [thr |-> IdleThread, resp |-> Resp(500, err)]
    ELSE next_pod(thr)

Finish(t, out) ==
    /\ threads' = [threads EXCEPT ![t] = out.thr]
    /\ response' = out.resp

\* create_pod: validation and lines 218-260 of schedule_pod
ConcCreatePod(t, cpu_requirement, algorithm) ==
    /\ threads[t].pc = "idle"
    /\ cpu_requirement > 0
    /\ algorithm \in ConcAlgorithms
    /\ LET sel == select_outcome(nodes, cpu_requirement, algorithm)
           thr == [IdleThread EXCEPT !.op = "create_pod", !.cpu = cpu_requirement,
                                     !.alg = algorithm]
       IN IF sel.error # NoError
          THEN Finish(t, schedule_failed(thr, sel.error))
          ELSE \E n \in sel.cand :
                  /\ threads' = [threads EXCEPT ![t] = [thr EXCEPT !.pc = "check", !.sel = n]]
                  /\ response' = NoResponse
    /\ UNCHANGED <<monitor, nodes, node_last_heartbeat, pods, uuid, docker_client, sim_thread,
                   now, log>>

\* lines 218-260 of a schedule_pod call made by the recovery loop
Select(t) ==
    /\ threads[t].pc = "select"
    /\ LET thr == threads[t]
           sel == select_outcome(nodes, thr.cpu, thr.alg)
       IN IF sel.error # NoError
          THEN Finish(t, schedule_failed(thr, sel.error))
          ELSE \E n \in sel.cand :
                  /\ threads' = [threads EXCEPT ![t] = [thr EXCEPT !.pc = "check", !.sel = n]]
                  /\ response' = NoResponse
    /\ UNCHANGED <<monitor, nodes, node_last_heartbeat, pods, uuid, docker_client, sim_thread,
                   now, log>>

\* add_pod_to_node, line 178
Check(t) ==
    /\ threads[t].pc = "check"
    /\ LET thr == threads[t]
       IN IF add_pod_to_node_ok(nodes, thr.sel, thr.cpu)
          THEN /\ threads' = [threads EXCEPT ![t].pc = "append"]
               /\ response' = NoResponse
          ELSE Finish(t, schedule_failed(thr, "Failed to schedule pod"))
    /\ UNCHANGED <<monitor, nodes, node_last_heartbeat, pods, uuid, docker_client, sim_thread,
                   now, log>>

\* add_pod_to_node, line 179
AppendPod(t) ==
    /\ threads[t].pc = "append"
    /\ uuid < MaxPodIds
    /\ uuid' = uuid + 1
    /\ nodes' = [nodes EXCEPT ![threads[t].sel].pods = Append(@, uuid + 1)]
    /\ threads' = [threads EXCEPT ![t].pc = "decrement", ![t].pod_id = uuid + 1]
    /\ response' = NoResponse
    /\ UNCHANGED <<monitor, node_last_heartbeat, pods, docker_client, sim_thread, now, log>>

\* add_pod_to_node, line 180
Decrement(t) ==
    /\ threads[t].pc = "decrement"
    /\ nodes' = [nodes EXCEPT ![threads[t].sel].available_cores = @ - threads[t].cpu]
    /\ threads' = [threads EXCEPT ![t].pc = "record"]
    /\ response' = NoResponse
    /\ UNCHANGED <<monitor, node_last_heartbeat, pods, uuid, docker_client, sim_thread, now, log>>

\* schedule_pod, lines 265-272: the record is stored and the call returns
Record(t) ==
    /\ threads[t].pc = "record"
    /\ LET thr == threads[t]
       IN /\ pods' = Append(pods, pod_record(thr.pod_id, thr.cpu, thr.sel, thr.alg))
          /\ IF thr.op = "create_pod"
             THEN /\ threads' = [threads EXCEPT ![t] = IdleThread]
                  /\ response' = Resp(201, NoError)
             ELSE /\ threads' = [threads EXCEPT ![t].pc = "del_old"]
                  /\ response' = NoResponse
    /\ UNCHANGED <<monitor, nodes, node_last_heartbeat, uuid, docker_client, sim_thread, now, log>>

\* terminate_node, line 467: NodeManager.terminate_node
ConcTerminate(t, n) ==
    /\ threads[t].pc = "idle"
    /\ n \in DOMAIN nodes
    /\ nodes' = mark_node_unhealthy(nodes, n)
    /\ threads' = [threads EXCEPT ![t] = [IdleThread EXCEPT !.op = "terminate",
                                                            !.pc = "collect", !.failed = n]]
    /\ response' = NoResponse
    /\ UNCHANGED <<monitor, node_last_heartbeat, pods, uuid, docker_client, sim_thread, now, log>>

\* reschedule_pods_from_node, lines 286-301
Collect(t) ==
    /\ threads[t].pc = "collect"
    /\ LET thr == threads[t]
           todo == pods_to_reschedule(pods, thr.failed)
       IN IF todo = <<>>
          THEN Finish(t, [thr |-> IdleThread, resp |-> Resp(200, NoError)])
          ELSE /\ threads' = [threads EXCEPT ![t] =
                                [thr EXCEPT !.pc = "select", !.todo = todo,
                                            !.cpu = todo[1].cpu_requirement,
                                            !.alg = todo[1].algorithm]]
               /\ response' = NoResponse
    /\ UNCHANGED <<monitor, nodes, node_last_heartbeat, pods, uuid, docker_client, sim_thread,
                   now, log>>

\* reschedule_pods_from_node, line 310; a missing key raises KeyError, which ends
\* the handler with a 500
DelOld(t) ==
    /\ threads[t].pc = "del_old"
    /\ LET thr == threads[t]
           old == thr.todo[1].id
       IN IF old \in PodIds(pods)
          THEN /\ pods' = del_pod(pods, old)
               /\ Finish(t, next_pod(thr))
          ELSE /\ UNCHANGED pods
               /\ Finish(t, [thr |-> IdleThread, resp |-> Resp(500, "KeyError")])
    /\ UNCHANGED <<monitor, nodes, node_last_heartbeat, uuid, docker_client, sim_thread, now, log>>

NextConc ==
    \/ \E c \in 1..MaxCores : AddNode(c, TRUE)
    \/ \E n \in DOMAIN nodes : NodeHeartbeat(n)
    \/ \E t \in ThreadIds, c \in 1..MaxCores, a \in ConcAlgorithms : ConcCreatePod(t, c, a)
    \/ \E t \in ThreadIds, n \in DOMAIN nodes : ConcTerminate(t, n)
    \/ \E t \in ThreadIds : Select(t)
    \/ \E t \in ThreadIds : Check(t)
    \/ \E t \in ThreadIds : AppendPod(t)
    \/ \E t \in ThreadIds : Decrement(t)
    \/ \E t \in ThreadIds : Record(t)
    \/ \E t \in ThreadIds : Collect(t)
    \/ \E t \in ThreadIds : DelOld(t)

SpecConc == InitConc /\ [][NextConc]_vars

\* ------------------------------------------------ the monitor loop on the clock
\* SpecTimed: the monitor thread runs one iteration of its loop whenever its
\* sleep has ended; the handlers run atomically, at the instant a sleep ends
\* (before or after the iteration) or one second before it.
TimedHorizon == MaxTime + SleepSeconds

\* the instant after t at which the model looks at the clock again
NextInstant(t) ==
    IF t % SleepSeconds = SleepSeconds - 1 THEN t + 1 ELSE t + (SleepSeconds - 1) - (t % SleepSeconds)

\* the algorithm tokens of the requests made while the clock is watched
TimedAlgorithms == {"first-fit"}

\* lines 363-375: one iteration of the loop, ending in time.sleep(5)
MonitorWake ==
    /\ monitor.running
    /\ monitor.wake = now
    /\ LET outs == monitor_each({Registries}, node_last_heartbeat, 1, now)
       IN /\ \A st \in outs : st.uuid <= MaxPodIds
          /\ \E st \in outs : Commit(st)
    /\ monitor' = [monitor EXCEPT !.wake = now + SleepSeconds]
    /\ response' = NoResponse
    /\ UNCHANGED <<node_last_heartbeat, docker_client, sim_thread, now, threads>>

\* time passes; a thread whose sleep has ended runs before the clock moves on
Tick ==
    /\ now < TimedHorizon
    /\ monitor.running => monitor.wake > now
    /\ now' = NextInstant(now)
    /\ response' = NoResponse
    /\ log' = <<>>
    /\ UNCHANGED <<nodes, node_last_heartbeat, pods, uuid, docker_client, sim_thread,
                   threads, monitor>>

NextTimed ==
    \/ \E c \in 1..MaxCores : AddNode(c, TRUE)
    \/ \E n \in DOMAIN nodes : NodeHeartbeat(n)
    \/ \E c \in 1..MaxCores, a \in TimedAlgorithms : CreatePod(c, a)
    \/ \E n \in DOMAIN nodes : TerminateNode(n)
    \/ MonitorWake
    \/ Tick

SpecTimed == Init /\ [][NextTimed]_vars

\* ------------------------------------------------ schedule_pod, called directly
\* SpecSched: the scheduler as its callers other than create_pod meet it, with
\* PodScheduler.schedule_pod(cpu_requirement, algorithm) called as it stands. No
\* HTTP response is made (code 0); response.error keeps the reason the call
\* returned with None.
SchedulePod(cpu_requirement, algorithm) ==
    /\ \E o \in schedule_pod(Registries, cpu_requirement, algorithm) :
          /\ Commit(o.st)
          /\ response' = Resp(0, o.error)
    /\ UNCHANGED <<node_last_heartbeat, docker_client, sim_thread, now, threads, monitor>>

NextSched ==
    \/ \E c \in 1..MaxCores : AddNode(c, TRUE)
    \/ \E n \in DOMAIN nodes : NodeHeartbeat(n)
    \/ \E n \in DOMAIN nodes : TerminateNode(n)
    \/ \E c \in 0..MaxCores, a \in Algorithms \cup {"bogus"} : SchedulePod(c, a)

SpecSched == Init /\ [][NextSched]_vars

\* --------------------------------------------------- POST /nodes, body as sent
\* SpecAdmit: the add_node handler with the JSON body it reads, on a server that
\* found a container runtime at start-up or did not. A JSON value is its Python
\* type and its value as a number (True is 1 and False is 0; the string is "1",
\* the float is 1.5 and counts as 1 here, as nothing reads it).
JsonValues ==
    {[type |-> "int", val |-> i] : i \in -1..MaxCores}
       \cup {[type |-> "bool", val |-> b] : b \in {0, 1}}
       \cup {[type |-> t, val |-> 1] : t \in {"str", "float"}}
       \cup {[type |-> "absent", val |-> 0]}

\* data.get('cpu_cores', 1)
get_cpu_cores(data) == IF data.type = "absent" THEN [type |-> "int", val |-> 1] ELSE data

\* isinstance(v, int): bool is a subclass of int
isinstance_int(v) == v.type \in {"int", "bool"}

PostNodes(data, run_ok) ==
    LET cpu_cores == get_cpu_cores(data)
    IN  IF ~ isinstance_int(cpu_cores)
        THEN /\ response' = Resp(400, "CPU cores must be a positive integer")
             /\ log' = <<>>
             /\ UNCHANGED <<nodes, node_last_heartbeat, docker_client, sim_thread,
                            monitor, pods, uuid, now, threads>>
        ELSE AddNode(cpu_cores.val, run_ok)

InitAdmit ==
    /\ nodes = <<>>
    /\ node_last_heartbeat = <<>>
    /\ pods = <<>>
    /\ uuid = 0
    /\ docker_client \in {"docker", "none"}
    /\ sim_thread = <<>>
    /\ now = 0
    /\ response = NoResponse
    /\ log = <<>>
    /\ threads = <<>>
    /\ monitor = StartedMonitor

NextAdmit ==
    \/ \E data \in JsonValues, run_ok \in BOOLEAN : PostNodes(data, run_ok)
    \/ \E n \in DOMAIN nodes : NodeHeartbeat(n)
    \/ \E c \in 1..MaxCores : CreatePod(c, "first-fit")
    \/ \E n \in DOMAIN nodes : TerminateNode(n)
    \/ AdvanceTime(TimeJump)

SpecAdmit == InitAdmit /\ [][NextAdmit]_vars

\* ------------------------------------------- the monitor started and stopped
\* SpecLife: HealthMonitor.start_monitoring and stop_monitoring called while
\* the server runs. monitor.thread is monitoring_thread: "alive" while the
\* thread is in its loop (asleep or about to test self.running), "exited" once
\* _monitor_nodes has returned. threads holds the call that returned last.
StartedLife == [running |-> TRUE, wake |-> 0, thread |-> "alive"]

Returned(method) == <<[IdleThread EXCEPT !.op = method]>>

InitLife ==
    /\ nodes = <<>>
    /\ node_last_heartbeat = <<>>
    /\ pods = <<>>
    /\ uuid = 0
    /\ docker_client = "docker"
    /\ sim_thread = <<>>
    /\ now = 0
    /\ response = NoResponse
    /\ log = <<>>
    /\ threads = Returned("start_monitoring")
    /\ monitor = StartedLife

\* lines 343-352
StartMonitoring ==
    /\ IF monitor.thread = "alive"
       THEN UNCHANGED monitor
       ELSE monitor' = [monitor EXCEPT !.running = TRUE, !.thread = "alive"]
    /\ threads' = Returned("start_monitoring")
    /\ response' = NoResponse
    /\ log' = <<>>
    /\ UNCHANGED <<nodes, node_last_heartbeat, pods, uuid, docker_client, sim_thread, now>>

\* lines 354-359; join(timeout=1) returns whether or not the thread has ended
StopMonitoring ==
    /\ monitor' = [monitor EXCEPT !.running = FALSE]
    /\ threads' = Returned("stop_monitoring")
    /\ response' = NoResponse
    /\ log' = <<>>
    /\ UNCHANGED <<nodes, node_last_heartbeat, pods, uuid, docker_client, sim_thread, now>>

\* a slip: the loop never looks at self.running
MonitorLoop_ignores_stop ==
    /\ monitor.thread = "alive"
    /\ MonitorTick

\* the monitor thread at `while self.running`: one more iteration, or the end
MonitorLoop ==
    /\ monitor.thread = "alive"
    /\ IF monitor.running
       THEN MonitorTick
       ELSE /\ monitor' = [monitor EXCEPT !.thread = "exited"]
            /\ response' = NoResponse
            /\ log' = <<>>
            /\ UNCHANGED <<nodes, node_last_heartbeat, pods, uuid, docker_client,
                           sim_thread, now, threads>>

LifeAlgorithms == {"first-fit"}

NextLife ==
    \/ \E c \in 1..MaxCores : AddNode(c, TRUE)
    \/ \E n \in DOMAIN nodes : NodeHeartbeat(n)
    \/ \E c \in 1..MaxCores, a \in LifeAlgorithms : CreatePod(c, a)
    \/ AdvanceTime(TimeJump)
    \/ StartMonitoring
    \/ StopMonitoring
    \/ MonitorLoop

SpecLife == InitLife /\ [][NextLife]_vars

\* the thread scheduler runs the monitor thread whenever its sleep has ended
SpecLifeFair == SpecLife /\ WF_vars(MonitorLoop)

\* ------------------------------------------- the simulated heartbeat threads
\* SpecSim: nodes admitted in simulation mode, each with its
\* _simulate_heartbeats thread, and no heartbeat from outside. sim_thread[n] is
\* the thread's position: "none" (no thread: the node has a container),
\* "start" (started, line 136 not yet run), "check" (at the while condition,
\* after the sleep if it has one behind it), "beat" (about to call
\* update_node_heartbeat), "done" (returned).
SimStart(n) ==
    /\ sim_thread[n] = "start"
    /\ nodes' = [nodes EXCEPT ![n].simulate_heartbeats = "on"]
    /\ sim_thread' = [sim_thread EXCEPT ![n] = "check"]
    /\ response' = NoResponse
    /\ log' = <<>>
    /\ UNCHANGED <<node_last_heartbeat, pods, uuid, docker_client, now, threads, monitor>>

SimCheck(n) ==
    /\ sim_thread[n] = "check"
    /\ sim_thread' = [sim_thread EXCEPT ![n] =
                        IF nodes[n].simulate_heartbeats = "on" THEN "beat" ELSE "done"]
    /\ response' = NoResponse
    /\ log' = <<>>
    /\ UNCHANGED <<nodes, node_last_heartbeat, pods, uuid, docker_client, now, threads,
                   monitor>>

SimBeat(n) ==
    /\ sim_thread[n] = "beat"
    /\ node_last_heartbeat' = [node_last_heartbeat EXCEPT ![n] = now]
    /\ nodes' = update_node_heartbeat(nodes, n)
    /\ sim_thread' = [sim_thread EXCEPT ![n] = "check"]
    /\ response' = NoResponse
    /\ log' = <<>>
    /\ UNCHANGED <<pods, uuid, docker_client, now, threads, monitor>>

SimAlgorithms == {"first-fit"}

NextSim ==
    \/ \E c \in 1..MaxCores, run_ok \in BOOLEAN : AddNode(c, run_ok)
    \/ \E c \in 1..MaxCores, a \in SimAlgorithms : CreatePod(c, a)
    \/ \E n \in DOMAIN nodes : TerminateNode(n)
    \/ \E n \in DOMAIN nodes : SimStart(n)
    \/ \E n \in DOMAIN nodes : SimCheck(n)
    \/ \E n \in DOMAIN nodes : SimBeat(n)

SpecSim == Init /\ [][NextSim]_vars

\* ------------------------------------- the monitor thread beside the handlers
\* SpecMon: the monitor thread runs _monitor_nodes statement by statement while
\* the handlers, each atomic, run between its steps. monitor.pc is its position:
\*   loop      lines 363-366  while self.running; time.time(); list(...items())
\*   mark      line  371      mark_node_unhealthy
\*   collect   lines 289-290  the list comprehension over self.pods.items()
\*   healthy   lines 173-174  the dict comprehension over self.nodes.items(),
\*                            then lines 220-260 on its result
\*   check .. del_old         as in the request threads
\* A dictionary iterator raises RuntimeError at its next step when the size of
\* the dictionary is no longer the size it had when the iterator was made; an
\* exception leaves _monitor_nodes, which ends the thread ("dead").
MonThread ==
    [running |-> TRUE, wake |-> 0, thread |-> "alive", pc |-> "loop", current_time |-> 0,
     snap |-> <<>>, idx |-> 0, size |-> 0, pos |-> 0, healthy |-> {}, todo |-> <<>>,
     sel |-> None, pod_id |-> None, error |-> NoError]

InitMon ==
    /\ nodes = <<>>
    /\ node_last_heartbeat = <<>>
    /\ pods = <<>>
    /\ uuid = 0
    /\ docker_client = "docker"
    /\ sim_thread = <<>>
    /\ now = 0
    /\ response = NoResponse
    /\ log = <<>>
    /\ threads = <<>>
    /\ monitor = MonThread

\* the locals of one recovery are dropped
Rest(m) ==
    [m EXCEPT !.size = 0, !.pos = 0, !.healthy = {}, !.todo = <<>>, !.sel = None,
              !.pod_id = None]

\* the for loop of _monitor_nodes goes on from entry k of its snapshot: to the
\* next stale entry, or into time.sleep(5)
to_node(m, k) ==
    LET S == {n \in k..Len(m.snap) : stale(m.snap, n, m.current_time)}
    IN IF S = {}
       THEN [Rest(m) EXCEPT !.pc = "loop", !.current_time = 0, !.snap = <<>>, !.idx = 0]
       ELSE [Rest(m) EXCEPT !.pc = "mark", !.idx = SetMin(S)]

\* an exception ends the thread
raise(m, err) ==
    [Rest(m) EXCEPT !.thread = "dead", !.pc = "dead", !.error = err, !.current_time = 0,
                    !.snap = <<>>, !.idx = 0]

\* schedule_pod is entered for the first pod of m.todo: iter(self.nodes.items())
iterate_nodes(m, ns) ==
    [m EXCEPT !.pc = "healthy", !.size = Len(ns), !.pos = 0, !.healthy = {},
              !.sel = None, !.pod_id = None]

\* the for loop of reschedule_pods_from_node goes on to its next pod, or returns
mon_next_pod(m, ns) ==
    IF Len(m.todo) <= 1
    THEN to_node(m, m.idx + 1)
    ELSE iterate_nodes([m EXCEPT !.todo = Tail(@)], ns)

\* the node registry as the finished comprehension of get_healthy_nodes saw it:
\* the statuses it read, on the node dictionaries as they are
healthy_view(ns, H) ==
    [n \in DOMAIN ns |->
        [ns[n] EXCEPT !.status = IF n \in H THEN "healthy" ELSE "unhealthy"]]

MonStep(m) ==
    /\ monitor' = m
    /\ response' = NoResponse
    /\ UNCHANGED <<node_last_heartbeat, docker_client, sim_thread, now, threads, log>>

MonLoop ==
    /\ monitor.thread = "alive" /\ monitor.pc = "loop"
    /\ IF monitor.running
       THEN MonStep(to_node([monitor EXCEPT !.current_time = now,
                                            !.snap = node_last_heartbeat], 1))
       ELSE MonStep([monitor EXCEPT !.thread = "exited", !.pc = "exited"])
    /\ UNCHANGED <<nodes, pods, uuid>>

MonMark ==
    /\ monitor.thread = "alive" /\ monitor.pc = "mark"
    /\ nodes' = mark_node_unhealthy(nodes, monitor.idx)
    /\ MonStep([monitor EXCEPT !.pc = "collect", !.size = Len(pods), !.pos = 0,
                               !.todo = <<>>])
    /\ UNCHANGED <<pods, uuid>>

MonCollect ==
    /\ monitor.thread = "alive" /\ monitor.pc = "collect"
    /\ IF Len(pods) # monitor.size
       THEN MonStep(raise(monitor, "RuntimeError"))
       ELSE IF monitor.pos < monitor.size
       THEN LET p == pods[monitor.pos + 1]
            IN MonStep([monitor EXCEPT !.pos = @ + 1,
                                       !.todo = IF p.node_id = monitor.idx
                                                THEN Append(@, p) ELSE @])
       ELSE IF monitor.todo = <<>>
       THEN MonStep(to_node(monitor, monitor.idx + 1))
       ELSE MonStep(iterate_nodes(monitor, nodes))
    /\ UNCHANGED <<nodes, pods, uuid>>

MonHealthy ==
    /\ monitor.thread = "alive" /\ monitor.pc = "healthy"
    /\ IF Len(nodes) # monitor.size
       THEN MonStep(raise(monitor, "RuntimeError"))
       ELSE IF monitor.pos < monitor.size
       THEN MonStep([monitor EXCEPT !.pos = @ + 1,
                                    !.healthy = IF nodes[monitor.pos + 1].status = "healthy"
                                                THEN @ \cup {monitor.pos + 1} ELSE @])
       ELSE LET p == monitor.todo[1]
                sel == select_outcome(healthy_view(nodes, monitor.healthy),
                                      p.cpu_requirement, p.algorithm)
            IN IF sel.error # NoError
               THEN MonStep(mon_next_pod(monitor, nodes))
               ELSE \E n \in sel.cand :
                       MonStep([monitor EXCEPT !.pc = "check", !.sel = n])
    /\ UNCHANGED <<nodes, pods, uuid>>

MonCheck ==
    /\ monitor.thread = "alive" /\ monitor.pc = "check"
    /\ IF add_pod_to_node_ok(nodes, monitor.sel, monitor.todo[1].cpu_requirement)
       THEN MonStep([monitor EXCEPT !.pc = "append"])
       ELSE MonStep(mon_next_pod(monitor, nodes))
    /\ UNCHANGED <<nodes, pods, uuid>>

MonAppend ==
    /\ monitor.thread = "alive" /\ monitor.pc = "append"
    /\ uuid < MaxPodIds
    /\ uuid' = uuid + 1
    /\ nodes' = [nodes EXCEPT ![monitor.sel].pods = Append(@, uuid + 1)]
    /\ MonStep([monitor EXCEPT !.pc = "decrement", !.pod_id = uuid + 1])
    /\ UNCHANGED pods

MonDecrement ==
    /\ monitor.thread = "alive" /\ monitor.pc = "decrement"
    /\ nodes' = [nodes EXCEPT ![monitor.sel].available_cores =
                                 @ - monitor.todo[1].cpu_requirement]
    /\ MonStep([monitor EXCEPT !.pc = "record"])
    /\ UNCHANGED <<pods, uuid>>

MonRecord ==
    /\ monitor.thread = "alive" /\ monitor.pc = "record"
    /\ LET p == monitor.todo[1]
       IN pods' = Append(pods, pod_record(monitor.pod_id, p.cpu_requirement, monitor.sel,
                                          p.algorithm))
    /\ MonStep([monitor EXCEPT !.pc = "del_old"])
    /\ UNCHANGED <<nodes, uuid>>

MonDelOld ==
    /\ monitor.thread = "alive" /\ monitor.pc = "del_old"
    /\ IF monitor.todo[1].id \in PodIds(pods)
       THEN /\ pods' = del_pod(pods, monitor.todo[1].id)
            /\ MonStep(mon_next_pod(monitor, nodes))
       ELSE /\ UNCHANGED pods
            /\ MonStep(raise(monitor, "KeyError"))
    /\ UNCHANGED <<nodes, uuid>>

MonAlgorithms == {"first-fit"}

NextMon ==
    \/ \E c \in 1..MaxCores : AddNode(c, TRUE)
    \/ \E n \in DOMAIN nodes : NodeHeartbeat(n)
    \/ \E c \in 1..MaxCores, a \in MonAlgorithms : CreatePod(c, a)
    \/ AdvanceTime(TimeJump)
    \/ MonLoop
    \/ MonMark
    \/ MonCollect
    \/ MonHealthy
    \/ MonCheck
    \/ MonAppend
    \/ MonDecrement
    \/ MonRecord
    \/ MonDelOld

SpecMon == InitMon /\ [][NextMon]_vars

\* ================================================================== claims
\* the lines of a log with a given message
Lines(lg, msg) == {i \in DOMAIN lg : lg[i].msg = msg}

\* cpu_requirement of the pod an id names; an id without a record names no pod
cpu_of(ps, id) == IF id \in PodIds(ps) THEN PodById(ps, id).cpu_requirement ELSE 0

\* sum of cpu_requirement over the pods whose ids are listed in n.pods
listed_cpu(ns, ps, n) == SumSeq([i \in DOMAIN ns[n].pods |-> cpu_of(ps, ns[n].pods[i])])

\* how often a pod id is listed on node n / on all nodes
Count(s, x) == Cardinality({i \in DOMAIN s : s[i] = x})
Listed(ns, id) == SumSeq([n \in DOMAIN ns |-> Count(ns[n].pods, id)])

\* what the "rescheduled" lines of a log add to node m: cores, and pod ids in order
relocated_cpu(lg, m) ==
    SumSeq([i \in DOMAIN lg |-> IF lg[i].msg = "rescheduled" /\ lg[i].node_id = m
                                THEN lg[i].cpu_requirement ELSE 0])
RECURSIVE relocated_ids(_, _)
relocated_ids(lg, m) ==
    IF lg = <<>> THEN <<>>
    ELSE (IF Head(lg).msg = "rescheduled" /\ Head(lg).node_id = m
          THEN <<Head(lg).new_pod_id>> ELSE <<>>) \o relocated_ids(Tail(lg), m)

\* C1: after every operation, every node's available_cores equals its cpu_cores
\* minus the sum of cpu_requirement over the pods listed in its pods list.
C1_CapacityAccounting ==
    \A n \in DOMAIN nodes :
        nodes[n].available_cores = nodes[n].cpu_cores - listed_cpu(nodes, pods, n)

\* C2: every pod record's node_id names an existing node, and that node's pods
\* list contains the pod's id.
C2_PodOnListingNode ==
    \A i \in DOMAIN pods :
        /\ pods[i].node_id \in DOMAIN nodes
        /\ pods[i].id \in Range(nodes[pods[i].node_id].pods)

\* a recovery has relocated one pod and left another stranded on the failed node
C2_Witness ==
    /\ Lines(log, "rescheduled") # {}
    /\ Lines(log, "failed to reschedule") # {}
    /\ \E i \in DOMAIN pods : nodes[pods[i].node_id].status = "unhealthy"

\* C3: a pod id is listed on at most one node and at most once, and every pod of
\* the registry is listed exactly once.
C3_ListedExactlyOnce ==
    /\ \A id \in 1..uuid : Listed(nodes, id) <= 1
    /\ \A i \in DOMAIN pods : Listed(nodes, pods[i].id) = 1
    /\ \A i, j \in DOMAIN pods : pods[i].id = pods[j].id => i = j

\* a pod was created after an earlier relocation had shrunk the registry
C3_Witness ==
    /\ uuid = MaxPodIds
    /\ Len(pods) < uuid
    /\ response = Resp(201, NoError)
    /\ pods # <<>> /\ pods[Len(pods)].id = uuid

\* C4: every node keeps 0 <= available_cores <= cpu_cores; a create-pod request
\* is committed only onto a node with that many cores free, and a rejected one
\* changes no node and no pod.
C4_AvailableInRange ==
    /\ [](\A n \in DOMAIN nodes :
             0 <= nodes[n].available_cores /\ nodes[n].available_cores <= nodes[n].cpu_cores)
    /\ [][/\ (response'.code = 201 /\ Len(pods') > Len(pods)) =>
                LET p == pods'[Len(pods')]
                IN /\ nodes[p.node_id].available_cores >= p.cpu_requirement
                   /\ nodes'[p.node_id].available_cores =
                         nodes[p.node_id].available_cores - p.cpu_requirement
          /\ response'.code = 500 => (nodes' = nodes /\ pods' = pods)]_vars

\* a request was rejected although a healthy node had free cores, too few of them
C4_Witness ==
    /\ response = Resp(500, "Insufficient resources")
    /\ \E n \in DOMAIN nodes : nodes[n].status = "healthy" /\ nodes[n].available_cores > 0

\* sum of cpu_requirement over the pod records committed to node n
committed_cpu(ps, n) ==
    SumSeq([i \in DOMAIN ps |-> IF ps[i].node_id = n THEN ps[i].cpu_requirement ELSE 0])

\* C5: with schedule_pod calls running in parallel, no node's available_cores
\* becomes negative and the pods committed to a node never need more cores than
\* the node has.
C5_NoOvercommit ==
    \A n \in DOMAIN nodes :
        /\ nodes[n].available_cores >= 0
        /\ committed_cpu(pods, n) <= nodes[n].cpu_cores

\* C6: a node that has become unhealthy never becomes healthy again.
C6_NoResurrection ==
    [][\A n \in DOMAIN nodes :
          nodes[n].status = "unhealthy" => nodes'[n].status = "unhealthy"]_vars

\* C7: a recovery never places a pod it took from the failed node back onto that
\* node, whatever heartbeats arrive while it runs.
C7_NotBackOntoFailedNode ==
    \A t \in DOMAIN threads :
        (threads[t].op = "terminate" /\ threads[t].pc = "del_old")
            => PodById(pods, threads[t].pod_id).node_id # threads[t].failed

\* what the "rescheduled" lines of a log take off failed node f
released_cpu(lg, f) ==
    SumSeq([i \in DOMAIN lg |-> IF lg[i].msg = "rescheduled" /\ lg[i].failed_node_id = f
                                THEN lg[i].cpu_requirement ELSE 0])

\* C8: when a recovery relocates a pod, the old pod id leaves the pods list of the
\* failed node and the failed node gets the pod's cores back.
C8_ReleasedOnSource ==
    [][\A i \in Lines(log', "rescheduled") :
          LET l == log'[i]
              f == l.failed_node_id
          IN /\ l.pod_id \notin Range(nodes'[f].pods)
             /\ nodes'[f].available_cores =
                   nodes[f].available_cores + released_cpu(log', f) - relocated_cpu(log', f)]_vars

\* C9: each relocation of a recovery creates exactly one record under a fresh id,
\* with the old pod's cores and algorithm, on a node that was healthy and is not
\* the failed one; the old id leaves the registry, the number of records stays,
\* and every node's available_cores drops by exactly the cores relocated onto it.
C9_Relocation ==
    [][LET R == Lines(log', "rescheduled")
       IN R # {} =>
          /\ Len(pods') = Len(pods)
          /\ \A m \in DOMAIN nodes :
                nodes'[m].available_cores = nodes[m].available_cores - relocated_cpu(log', m)
          /\ \A i \in R :
                LET l == log'[i]
                IN /\ l.new_pod_id \notin 1..uuid
                   /\ l.new_pod_id <= uuid'
                   /\ \A j \in R : j # i => log'[j].new_pod_id # l.new_pod_id
                   /\ l.pod_id \notin PodIds(pods')
                   /\ l.pod_id \in PodIds(pods) =>
                        /\ l.cpu_requirement = PodById(pods, l.pod_id).cpu_requirement
                        /\ l.algorithm = PodById(pods, l.pod_id).algorithm
                        /\ l.failed_node_id = PodById(pods, l.pod_id).node_id
                   /\ l.new_pod_id \in PodIds(pods') =>
                        /\ Cardinality({k \in DOMAIN pods' : pods'[k].id = l.new_pod_id}) = 1
                        /\ PodById(pods', l.new_pod_id) =
                              [id |-> l.new_pod_id, cpu_requirement |-> l.cpu_requirement,
                               node_id |-> l.node_id, algorithm |-> l.algorithm]
                   /\ l.pod_id \in PodIds(pods) \/ l.new_pod_id \in PodIds(pods')
                   /\ l.node_id \in DOMAIN nodes
                   /\ l.node_id # l.failed_node_id
                   /\ nodes[l.node_id].status = "healthy"
                   /\ \A j \in 1..i : log'[j].failed_node_id # l.node_id]_vars

\* a pod that was not placed first-fit has been relocated
C9_Witness ==
    \E i \in Lines(log, "rescheduled") :
        /\ log[i].algorithm # "first-fit"
        /\ log[i].new_pod_id \in PodIds(pods)
        /\ nodes[log[i].node_id].status = "healthy"

\* C10: a pod the recovery cannot place keeps its record, still on the failed
\* node; it is tried once; and the attempt changes no node: every node's pods
\* list and available_cores change only by what was relocated onto it.
C10_FailedReschedule ==
    [][\A i \in Lines(log', "failed to reschedule") :
          LET l == log'[i]
          IN /\ l.pod_id \in PodIds(pods')
             /\ PodById(pods', l.pod_id).node_id = l.failed_node_id
             /\ nodes'[l.failed_node_id].status = "unhealthy"
             /\ l.pod_id \in PodIds(pods) => PodById(pods', l.pod_id) = PodById(pods, l.pod_id)
             /\ \A j \in DOMAIN log' : j # i => log'[j].pod_id # l.pod_id
             /\ \A m \in DOMAIN nodes :
                   /\ nodes'[m].pods = nodes[m].pods \o relocated_ids(log', m)
                   /\ nodes'[m].available_cores =
                         nodes[m].available_cores - relocated_cpu(log', m)
                   /\ nodes'[m].cpu_cores = nodes[m].cpu_cores]_vars

\* scenario 6: the pod stays on the failed node although another node is healthy,
\* with free cores but too few
C10_Witness ==
    /\ Lines(log, "rescheduled") = {}
    /\ \E i \in Lines(log, "failed to reschedule") :
          /\ log[i].pod_id \in PodIds(pods)
          /\ \E m \in DOMAIN nodes :
                /\ nodes[m].status = "healthy"
                /\ nodes[m].available_cores > 0
                /\ nodes[m].available_cores < PodById(pods, log[i].pod_id).cpu_requirement

\* when the monitor's last iteration ran; negative before its first
last_tick == monitor.wake - SleepSeconds

\* C11: while the monitor runs, its next iteration is at most one sleep away, a
\* node that was stale at the last iteration is not healthy, and so no healthy
\* node has been silent for more than heartbeat_timeout plus one sleep.
C11_DetectedWithinTick ==
    /\ monitor.running
    /\ monitor.wake - now \in 0..SleepSeconds
    /\ \A n \in DOMAIN nodes :
          nodes[n].status = "healthy" =>
             /\ last_tick - node_last_heartbeat[n] <= heartbeat_timeout
             /\ now - node_last_heartbeat[n] <= heartbeat_timeout + SleepSeconds

\* the monitor has just marked a node silent for the longest time it can stay
\* unnoticed, and has not marked one silent for exactly heartbeat_timeout
C11_Witness ==
    /\ response = NoResponse
    /\ last_tick = now
    /\ \E n, m \in DOMAIN nodes :
          /\ nodes[n].status = "unhealthy"
          /\ now - node_last_heartbeat[n] = heartbeat_timeout + SleepSeconds
          /\ \E i \in DOMAIN log : log[i].failed_node_id = n
          /\ nodes[m].status = "healthy"
          /\ now - node_last_heartbeat[m] = heartbeat_timeout

C13_Terminate ==
    [][\A n \in DOMAIN nodes :
          (/\ response'.code = 200
           /\ node_last_heartbeat' = node_last_heartbeat
           /\ TerminateNode(n)) =>
             /\ nodes'[n].status = "unhealthy"
             /\ DOMAIN nodes' = DOMAIN nodes
             /\ \A m \in DOMAIN nodes :
                   /\ nodes'[m].cpu_cores = nodes[m].cpu_cores
                   /\ m # n => nodes'[m].status = nodes[m].status
             /\ \A i \in DOMAIN log' :
                   log'[i].failed_node_id = n /\ log'[i].node_id # n
             /\ Len(log') = Cardinality({i \in DOMAIN pods : pods[i].node_id = n})
             /\ \A i \in DOMAIN pods :
                   IF pods[i].node_id = n
                   THEN Cardinality({j \in DOMAIN log' : log'[j].pod_id = pods[i].id}) = 1
                   ELSE /\ pods[i] \in Range(pods')
                        /\ \A j \in DOMAIN log' : log'[j].pod_id # pods[i].id]_vars

\* a terminate request has moved a pod next to a pod of another node, which it
\* left alone
C13_Witness ==
    /\ response = Resp(200, NoError)
    /\ \E i \in Lines(log, "rescheduled") :
          /\ nodes[log[i].failed_node_id].status = "unhealthy"
          /\ \E j \in DOMAIN pods :
                /\ pods[j].node_id = log[i].node_id
                /\ pods[j].id < log[i].new_pod_id
                /\ \A k \in DOMAIN log : log[k].pod_id # pods[j].id

\* C14: a heartbeat or a terminate request for a node id that is not registered
\* is answered 404, and a step answered 404 changes no node, no heartbeat time
\* and no pod and runs no recovery.
C14_UnknownNode ==
    [][/\ \A n \in NodeIds \ DOMAIN nodes :
             (NodeHeartbeat(n) \/ TerminateNode(n)) => response' = Resp(404, "Node not found")
       /\ response'.code = 404 =>
             /\ UNCHANGED <<nodes, node_last_heartbeat, pods, uuid>>
             /\ log' = <<>>]_vars

\* a request for an unknown node was turned down while a pod sat on an unhealthy node
C14_Witness ==
    /\ response = Resp(404, "Node not found")
    /\ \E i \in DOMAIN pods : nodes[pods[i].node_id].status = "unhealthy"

\* the healthy nodes of the registry, and those of them with c cores free
Healthy == {n \in DOMAIN nodes : nodes[n].status = "healthy"}
Fits(c) == {n \in Healthy : nodes[n].available_cores >= c}

\* the step is a call schedule_pod(c, a)
Called(c, a) == response'.code = 0 /\ SchedulePod(c, a)

\* what a call schedule_pod(c, a) made in the current state may return, each
\* outcome with the registries it leaves
Outcomes(c, a) == schedule_pod(Registries, c, a)

\* outcome o is a pod on node o.node_id: a fresh record there, listed and charged
Placed(o, c, a) ==
    /\ o.error = NoError
    /\ o.pod_id \notin PodIds(pods)
    /\ o.node_id \in DOMAIN nodes
    /\ o.st.pods = Append(pods, pod_record(o.pod_id, c, o.node_id, a))
    /\ o.st.nodes = [nodes EXCEPT ![o.node_id].pods = Append(@, o.pod_id),
                                  ![o.node_id].available_cores = @ - c]

\* C15: in every state, a schedule_pod call fails with 'No healthy nodes available' exactly when
\* no node is healthy, and with 'Insufficient resources' exactly when some node
\* is healthy and no healthy node has cpu_requirement cores free.
C15_FailureCauses ==
    \A c \in 0..MaxCores, a \in Algorithms \cup {"bogus"} :
       \A o \in Outcomes(c, a) :
          /\ o.error = "No healthy nodes available" <=> Healthy = {}
          /\ o.error = "Insufficient resources" <=> (Healthy # {} /\ Fits(c) = {})
          /\ o.error # NoError <=> o.pod_id = None

\* a call failed for want of room although an unhealthy node had all its cores free
C15_Witness ==
    /\ response = Resp(0, "Insufficient resources")
    /\ Healthy # {}
    /\ \E n \in DOMAIN nodes :
          nodes[n].status = "unhealthy" /\ nodes[n].available_cores = nodes[n].cpu_cores

\* C16: a schedule_pod call that returns without a pod, for whichever reason,
\* has changed no node record and no pod record.
C16_FailedCallChangesNothing ==
    [][(response'.code = 0 /\ response'.error # NoError) =>
          (nodes' = nodes /\ pods' = pods)]_vars

\* a call failed at the commit, with pods in the registry and room on a healthy node
C16_Witness ==
    /\ response = Resp(0, "Failed to schedule pod")
    /\ pods # <<>>
    /\ \E n \in Healthy : nodes[n].available_cores > 0

\* C17: a schedule_pod call with a non-positive cpu_requirement or with an
\* algorithm outside the five known ones returns without a pod and changes no
\* node and no pod.
C17_InvalidInputRejected ==
    [][\A c \in 0..MaxCores, a \in Algorithms \cup {"bogus"} :
          ((c <= 0 \/ a \notin Algorithms) /\ Called(c, a)) =>
             /\ response'.error # NoError
             /\ nodes' = nodes
             /\ pods' = pods]_vars

\* C18: in every state, a first-fit call places its pod whenever some healthy node has the cores
\* free, on the earliest admitted of those nodes.
C18_FirstFit ==
    \A c \in 1..MaxCores :
       Fits(c) # {} =>
          \A o \in Outcomes(c, "first-fit") :
             /\ Placed(o, c, "first-fit")
             /\ o.node_id \in Fits(c)
             /\ \A m \in Fits(c) : o.node_id <= m

\* the example of the claim at this scale, N1(2) and N2(2): one core goes to N1,
\* two cores go to N2 as N1 has one left, one more core goes to N1
C18_Witness ==
    /\ response = Resp(0, NoError)
    /\ Len(nodes) = 2 /\ \A n \in DOMAIN nodes : n \in Healthy /\ nodes[n].cpu_cores = 2
    /\ pods = <<pod_record(1, 1, 1, "first-fit"), pod_record(2, 2, 2, "first-fit"),
                pod_record(3, 1, 1, "first-fit")>>

\* C19: in every state, a best-fit call places its pod whenever some healthy node has the cores
\* free, on one of those nodes with the fewest free cores, the earliest admitted
\* among equals.
C19_BestFit ==
    \A c \in 1..MaxCores :
       Fits(c) # {} =>
          \A o \in Outcomes(c, "best-fit") :
             /\ Placed(o, c, "best-fit")
             /\ o.node_id \in Fits(c)
             /\ \A m \in Fits(c) :
                   /\ nodes[o.node_id].available_cores <= nodes[m].available_cores
                   /\ nodes[o.node_id].available_cores = nodes[m].available_cores
                         => o.node_id <= m

\* a best-fit pod went to the second node, the first one having more cores free
C19_Witness ==
    /\ response = Resp(0, NoError)
    /\ pods # <<>>
    /\ LET p == pods[Len(pods)]
       IN /\ p.algorithm = "best-fit" /\ p.node_id = 2 /\ p.cpu_requirement > 0
          /\ 1 \in Healthy
          /\ nodes[1].available_cores > nodes[2].available_cores + p.cpu_requirement

\* C20: in every state, a worst-fit call places its pod whenever some healthy node has the cores
\* free, on one of those nodes with the most free cores, the earliest admitted
\* among equals.
C20_WorstFit ==
    \A c \in 1..MaxCores :
       Fits(c) # {} =>
          \A o \in Outcomes(c, "worst-fit") :
             /\ Placed(o, c, "worst-fit")
             /\ o.node_id \in Fits(c)
             /\ \A m \in Fits(c) :
                   /\ nodes[o.node_id].available_cores >= nodes[m].available_cores
                   /\ nodes[o.node_id].available_cores = nodes[m].available_cores
                         => o.node_id <= m

\* a worst-fit pod went to the first of two nodes that had equally many cores
\* free, and the one before it to the second node, which had more
C20_Witness ==
    /\ response = Resp(0, NoError)
    /\ Len(pods) >= 2
    /\ LET p == pods[Len(pods)]
           q == pods[Len(pods) - 1]
       IN /\ p.algorithm = "worst-fit" /\ p.node_id = 1 /\ p.cpu_requirement > 0
          /\ q.algorithm = "worst-fit" /\ q.node_id = 2 /\ q.cpu_requirement > 0
          /\ 2 \in Healthy /\ 1 \in Healthy
          /\ nodes[2].available_cores = nodes[1].available_cores + p.cpu_requirement

\* number of pod records in the pod registry that name node n
registry_count(n) == Cardinality({i \in DOMAIN pods : pods[i].node_id = n})

\* C21: in every state, a round-robin call places its pod on the healthy node
\* with the cores free that has the fewest pods assigned in the pod registry,
\* the earliest admitted among equals.
C21_RoundRobin ==
    \A c \in 1..MaxCores :
       Fits(c) # {} =>
          \A o \in Outcomes(c, "round-robin") :
             /\ Placed(o, c, "round-robin")
             /\ o.node_id \in Fits(c)
             /\ \A m \in Fits(c) :
                   /\ registry_count(o.node_id) <= registry_count(m)
                   /\ registry_count(o.node_id) = registry_count(m) => o.node_id <= m

\* C22: in every state, a call of schedule_pod with given arguments has one
\* outcome: the same node, the same pod id and the same registries on every run
\* from that state, whatever the algorithm.
C22_Deterministic ==
    \A c \in 1..MaxCores, a \in Algorithms :
       \A o1, o2 \in Outcomes(c, a) : o1 = o2

\* the request carries a positive integer capacity (or none, and the default 1)
PositiveInteger(data) == data.type = "absent" \/ (data.type = "int" /\ data.val > 0)

\* C23: a POST /nodes with a positive integer capacity adds exactly one node:
\* healthy, all its cores free, no pods, its heartbeat stamped now, answered 201
\* whether or not the container runtime call succeeds; with any other capacity
\* it is answered 400 and adds no node.
C23_Admit ==
    [][\A data \in JsonValues, run_ok \in BOOLEAN :
          PostNodes(data, run_ok) =>
             IF PositiveInteger(data)
             THEN /\ response'.code = 201
                  /\ Len(nodes') = Len(nodes) + 1
                  /\ \A n \in DOMAIN nodes : nodes'[n] = nodes[n]
                  /\ LET new == nodes'[Len(nodes')]
                     IN /\ new.status = "healthy"
                        /\ new.cpu_cores = get_cpu_cores(data).val
                        /\ new.available_cores = new.cpu_cores
                        /\ new.pods = <<>>
                  /\ node_last_heartbeat' = Append(node_last_heartbeat, now)
                  /\ pods' = pods
             ELSE /\ response'.code = 400
                  /\ nodes' = nodes
                  /\ node_last_heartbeat' = node_last_heartbeat
                  /\ pods' = pods]_vars

\* C24: an iteration of the monitor hands to recovery only nodes that were
\* healthy when it began: every pod it moves or fails to move comes from a node
\* that was stale and healthy, and the pods of a node already unhealthy are not
\* gone through again.
C24_OnlyHealthyHandedOver ==
    [][monitor'.wake # monitor.wake =>
          \A i \in DOMAIN log' :
             LET n == log'[i].failed_node_id
             IN /\ now - node_last_heartbeat[n] > heartbeat_timeout
                /\ nodes[n].status = "healthy"]_vars

\* the node registry and the heartbeat stamps after a heartbeat of node n at
\* time t, as node_heartbeat leaves them
Beat(S, n, t) ==
    [nodes |-> update_node_heartbeat(S.nodes, n), hb |-> [S.hb EXCEPT ![n] = t]]

\* the fields of the nodes a heartbeat is to leave alone
Holdings(ns) ==
    [n \in DOMAIN ns |-> <<ns[n].cpu_cores, ns[n].available_cores, ns[n].pods>>]

\* C25: a heartbeat of a registered node stamps that node with the current time
\* and changes no node's cpu_cores, available_cores or pods list, no other
\* stamp and no pod record; in every state, the same heartbeat applied twice,
\* and the heartbeats of two nodes applied in either order, leave the same node
\* registry, each node stamped with the time of its latest heartbeat.
C25_Heartbeats ==
    /\ [][\A n \in DOMAIN nodes :
             NodeHeartbeat(n) =>
                /\ Holdings(nodes') = Holdings(nodes)
                /\ pods' = pods
                /\ node_last_heartbeat' = [node_last_heartbeat EXCEPT ![n] = now]
                /\ [nodes |-> nodes', hb |-> node_last_heartbeat']
                      = Beat([nodes |-> nodes, hb |-> node_last_heartbeat], n, now)]_vars
    /\ [](LET S == [nodes |-> nodes, hb |-> node_last_heartbeat]
          IN \A n, m \in DOMAIN nodes, d \in 0..1 :
                /\ Beat(Beat(S, n, now), n, now + d).nodes = Beat(S, n, now).nodes
                /\ Beat(Beat(S, n, now), n, now + d).hb = Beat(S, n, now + d).hb
                /\ n # m =>
                      /\ Beat(Beat(S, n, now), m, now + d).nodes
                            = Beat(Beat(S, m, now), n, now + d).nodes
                      /\ Beat(Beat(S, n, now), m, now + d).hb
                            = [S.hb EXCEPT ![n] = now, ![m] = now + d]
                      /\ Beat(Beat(S, m, now), n, now + d).hb
                            = [S.hb EXCEPT ![m] = now, ![n] = now + d])

\* node 1, holding a pod, has sent a heartbeat later than its admission, and
\* node 2 has not
C25_Witness ==
    /\ Len(nodes) = 2
    /\ now > 0
    /\ node_last_heartbeat[1] = now /\ node_last_heartbeat[2] = 0
    /\ nodes[1].status = "healthy" /\ nodes[1].pods # <<>>
    /\ pods # <<>>
    /\ response = Resp(200, NoError)

\* thread t takes the step of add_pod_to_node or schedule_pod that leads from
\* position from to position to
Steps(t, from, to) == threads[t].pc = from /\ threads'[t].pc = to

\* C26: a scheduling call passes the check of add_pod_to_node, and appends its
\* pod to the node's list, only while the node is healthy.
C26_CommitOnHealthyNode ==
    [][\A t \in ThreadIds :
          Steps(t, "check", "append") \/ Steps(t, "append", "decrement")
             => nodes[threads[t].sel].status = "healthy"]_vars

\* C27: in every state, a pod id that a scheduling call has put on a node's
\* list has its record in the pod registry: no state shows the list or the free
\* cores of a commit without its record.
C27_CommitAtomic ==
    \A t \in ThreadIds :
       LET thr == threads[t]
       IN (thr.pod_id # None /\ thr.pod_id \in Range(nodes[thr.sel].pods))
             => thr.pod_id \in PodIds(pods)

\* C28: when a scheduling call takes the pod's cores from the node's
\* available_cores, the pod's record is already in the pod registry.
C28_RecordBeforeDecrement ==
    [][\A t \in ThreadIds :
          Steps(t, "decrement", "record") => threads[t].pod_id \in PodIds(pods)]_vars

\* C29: recovery of a node starts after the node was marked unhealthy, and the
\* node is unhealthy at each step that places one of its pods again: the
\* append, the decrement and the new record.
C29_UnhealthyWhileRecovered ==
    [][\A t \in ThreadIds :
          (/\ threads[t].op = "terminate"
           /\ \/ Steps(t, "collect", "select")
              \/ Steps(t, "append", "decrement")
              \/ Steps(t, "decrement", "record")
              \/ Steps(t, "record", "del_old"))
             => nodes[threads[t].failed].status = "unhealthy"]_vars

\* C30: a scheduling call whose node no longer passes the check of
\* add_pod_to_node gives up only if no healthy node has the cores free.
C30_RetryAfterLostRace ==
    [][\A t \in ThreadIds :
          (threads[t].pc = "check" /\ threads'[t].pc \notin {"check", "append"})
             => ~ \E n \in DOMAIN nodes :
                     /\ nodes[n].status = "healthy"
                     /\ nodes[n].available_cores >= threads[t].cpu]_vars

\* get_node_stats: used_cores = total_cores - available_cores
used_cores(ns) ==
    SumSeq([n \in DOMAIN ns |-> ns[n].cpu_cores])
       - SumSeq([n \in DOMAIN ns |-> ns[n].available_cores])

\* get_pod_stats: total_cpu_usage
total_cpu_usage(ps) == SumSeq([i \in DOMAIN ps |-> ps[i].cpu_requirement])

\* C33: in every state, the cores the node registry counts as used are the
\* cores the pod records require: used_cores = total_cpu_usage.
C33_StatsAgree == used_cores(nodes) = total_cpu_usage(pods)

\* C34: a pod of a failed node is moved at most once: a recovery stores the new
\* record of a pod only while the pod's old record is still in the registry,
\* and deleting the old record never fails.
C34_RelocatedOnce ==
    /\ [][\A t \in ThreadIds :
             (threads[t].op = "terminate" /\ Steps(t, "record", "del_old"))
                => threads[t].todo[1].id \in PodIds(pods)]_vars
    /\ [](response.error # "KeyError")

\* C32: while the stop signal is set no node turns unhealthy and no pod is
\* moved or found unmovable by a recovery, and the monitor thread, once the
\* signal is set, comes to its end.
C32_CooperativeShutdown ==
    /\ [][~ monitor.running =>
             /\ \A n \in DOMAIN nodes :
                   nodes[n].status = "healthy" => nodes'[n].status = "healthy"
             /\ log' = <<>>]_vars
    /\ (~ monitor.running) ~> (monitor.thread = "exited")

\* the monitor was stopped and its thread has ended, leaving a silent node healthy
C32_Witness ==
    /\ ~ monitor.running
    /\ monitor.thread = "exited"
    /\ threads = Returned("stop_monitoring")
    /\ \E n \in DOMAIN nodes :
          /\ nodes[n].status = "healthy"
          /\ now - node_last_heartbeat[n] > heartbeat_timeout
          /\ nodes[n].pods # <<>>

\* C38: in every state, if start_monitoring was the last of the two calls to
\* return, the running flag is set and the monitor thread is alive.
C38_StartedMeansRunning ==
    threads = Returned("start_monitoring")
       => monitor.running /\ monitor.thread = "alive"

\* C37: with no heartbeat from outside, a simulation-mode node that is
\* unhealthy stays unhealthy and gets no further heartbeat stamp from its
\* thread.
C37_SimulatedHeartbeatsStop ==
    [][\A n \in DOMAIN nodes :
          (sim_thread[n] # "none" /\ nodes[n].status = "unhealthy")
             => /\ nodes'[n].status = "unhealthy"
                /\ sim_thread'[n] # "beat"
                /\ node_last_heartbeat'[n] = node_last_heartbeat[n]]_vars

\* C31: a tick of the monitor that is going through the node dictionary when a
\* node is admitted goes on: the step that follows leaves the thread alive, so
\* every node of the tick's snapshot gets its staleness check.
C31_TickSurvivesAdmission ==
    [][(monitor.thread = "alive" /\ monitor.pc = "healthy")
          => monitor'.thread = "alive"]_vars

\* C35: a tick of the monitor that is collecting the pods of a failed node, or
\* deleting a pod's old record, when the pod registry is changed goes on: no
\* error ends the loop while the stop signal is not set.
C35_MonitorKeepsRunning ==
    [][(monitor.running /\ monitor.thread = "alive" /\ monitor.pc \in {"collect", "del_old"})
          => monitor'.thread = "alive"]_vars

\* C36: the monitor marks a node unhealthy only when the node's last heartbeat,
\* as it stands at that moment, is older than heartbeat_timeout.
C36_MarkedOnlyIfStillStale ==
    [][(monitor.thread = "alive" /\ monitor.pc = "mark" /\ monitor'.pc # "mark")
          => now - node_last_heartbeat[monitor.idx] > heartbeat_timeout]_vars

====
